---- MODULE Spec2Model ----
(***************************************************************************)
(* banana_art backend: uploaded images, templates, generations and the     *)
(* background generation task (backend/main.py, backend/models.py).        *)
(*                                                                         *)
(* The relational tables are functions from primary keys to rows, the two  *)
(* static directories are one function from local paths to file contents,  *)
(* and every scheduled background task is a record holding the arguments   *)
(* it was scheduled with, its local variables and its position.            *)
(***************************************************************************)
EXTENDS Integers, Sequences, FiniteSets, TLC

\* ---------------------------------------------------------------- bounds
\* Spec: generations side by side.
\* number of submit requests that reach the commit of a Generation row
MaxSubmits == 2
\* number of files ever written to the uploads directory
MaxUploads == 1
\* length of the image list of a request
MaxIds == 1
\* number of rows of the templates table at any one time
MaxTemplates == 1
\* SpecCompose: one generation composed from several images
ComposeUploads == 3
ComposeIds == 2
\* SpecNormalize: one generation, every response of up to MaxParts parts
MaxParts == 3
\* SpecFair: the tasks that run to their end under fair scheduling
LiveSubmits == 1
\* SpecTemplate: one generation from a template that is edited meanwhile
TemplateSubmits == 1

\* ------------------------------------------------------------- constants
\* paths are sequences of components, the file name last.
\* None in a path column or path variable
NULL == <<>>
\* the failure sentinel written to output_image_path
ERROR == <<"error">>
\* None in generations.source_image_id (rowids start at 1)
NoId == 0
\* part.inline_data of a part that carries none: the empty, falsy blob
NoBlob == [mime_type |-> <<>>, data |-> ""]
\* the aggregate text accessor response.text raising instead of returning
RAISES == "raises"

\* the (prompt, aspect_ratio) pairs templates are made of
TemplateInputs == {<<"p1", "1:1">>}
\* two of them, for a template that is updated
EditedTemplateInputs == {<<"p1", "1:1">>, <<"p2", "16:9">>}
\* the (prompt, aspect_ratio) pairs of the requests that carry their own
RequestInputs == {<<"p3", "4:3">>}

\* mime types as token sequences; "x in mime_type" is token membership
MimePng == <<"image/", "png">>
MimeJpeg == <<"image/", "jpeg">>
MimeJpegWebp == <<"image/", "jpeg", "+", "webp">>

\* one part of a response: part.text and part.inline_data
TextPart(s) == [text |-> s, inline_data |-> NoBlob]
BinaryPart(m, d) == [text |-> "", inline_data |-> [mime_type |-> m, data |-> d]]
PartValues ==
    {TextPart("a"), TextPart("b"),
     BinaryPart(MimePng, "bytes1"), BinaryPart(MimeJpeg, "bytes2"),
     BinaryPart(MimeJpegWebp, "bytes3")}
PartSeqs == UNION {[1..n -> PartValues] : n \in 0..MaxParts}
\* a response: its parts and what its aggregate text accessor yields
AllResponses == {[parts |-> p, text |-> x] : p \in PartSeqs, x \in {RAISES, "", "t"}}
\* three of them: no output, text only, two binary parts
SomeResponses ==
    {[parts |-> <<>>, text |-> ""],
     [parts |-> <<TextPart("a"), TextPart("b")>>, text |-> "ab"],
     [parts |-> <<BinaryPart(MimePng, "bytes1"), BinaryPart(MimeJpeg, "bytes2")>>, text |-> RAISES]}

\* what bounds the requests and the model's answers in a specification
Bounds ==
    [submits |-> MaxSubmits, uploads |-> MaxUploads, ids |-> MaxIds,
     templates |-> MaxTemplates, template_inputs |-> TemplateInputs,
     responses |-> SomeResponses]
ComposeBounds ==
    [submits |-> 1, uploads |-> ComposeUploads, ids |-> ComposeIds,
     templates |-> MaxTemplates, template_inputs |-> TemplateInputs,
     responses |-> {[parts |-> <<TextPart("a")>>, text |-> "a"]}]
NormalizeBounds ==
    [submits |-> 1, uploads |-> 1, ids |-> 1,
     templates |-> MaxTemplates, template_inputs |-> TemplateInputs,
     responses |-> AllResponses]
LiveBounds ==
    [submits |-> LiveSubmits, uploads |-> MaxUploads, ids |-> MaxIds,
     templates |-> MaxTemplates, template_inputs |-> TemplateInputs,
     responses |-> SomeResponses]
TemplateBounds ==
    [submits |-> TemplateSubmits, uploads |-> MaxUploads, ids |-> MaxIds,
     templates |-> MaxTemplates, template_inputs |-> EditedTemplateInputs,
     responses |-> {[parts |-> <<TextPart("a")>>, text |-> "a"]}]
\* the variable response before generate_content returned
NoResponse == [parts |-> <<>>, text |-> RAISES]

\* ------------------------------------------------------------------ state
VARIABLES
    images,      \* uploaded_images table: id -> [filepath]
    templates,   \* templates table: id -> [prompt_template, aspect_ratio, reference_images]
    gens,        \* generations table: id -> [prompt, aspect_ratio, source_image_id, source_images, output_image_path]
    fs,          \* files on disk: local path -> content
    upNames,     \* number of uuid4 names drawn for uploaded files
    sessions,    \* number of sessions get_db opened for submit handlers that committed
    tasks,       \* background tasks in scheduling order
    req          \* the submit handler running on the event loop, or Idle

vars == <<images, templates, gens, fs, upNames, sessions, tasks, req>>

\* ---------------------------------------------------------------- helpers
Max(S) == CHOOSE m \in S : \A x \in S : x <= m

\* id = Column(Integer, primary_key=True): in the SQLite file the application
\* keeps (backend/banana_art.db) the key is the rowid, and an INSERT gets one
\* more than the largest key in the table, so the key of a deleted last row
\* is given out again
NextId(ids) == IF ids = {} THEN 1 ELSE Max(ids) + 1

Range(s) == {s[i] : i \in DOMAIN s}

RECURSIVE SeqsUpTo(_, _)
SeqsUpTo(S, n) == IF n = 0 THEN {<<>>} ELSE SeqsUpTo(S, n - 1) \cup [1..n -> S]

\* all orderings of a finite set: the rows of a query without ORDER BY
Orderings(S) == {s \in [1..Cardinality(S) -> S] : Range(s) = S}

\* f"/static/uploads/{new_filename}"
UploadRef(name) == <<"static", "uploads", name>>
\* mutant: the reference names the uploads directory
GeneratedRefWrongDir(name) == <<"static", "uploads", name>>
\* f"/static/generated/{filename}"
GeneratedRef(name) == <<"static", "generated", name>>
\* os.path.join("backend", path.lstrip("/"))
LocalPath(ref) == <<"backend">> \o ref
\* os.path.join(GENERATED_DIR, filename)
GeneratedFile(name) == <<"backend", "static", "generated", name>>
\* os.path.join(UPLOAD_DIR, new_filename)
UploadFilePath(name) == <<"backend", "static", "uploads", name>>

\* the file names uuid4 yields, never the same one twice: the n-th upload,
\* and the k-th file that background task t writes
UploadName(n) == [uuid |-> <<n>>, ext |-> ".img"]
GenName(t, k, ext) == [uuid |-> <<t, k>>, ext |-> ext]

\* remove path p from the file system if it exists
RemoveFile(files, p) == [q \in DOMAIN files \ {p} |-> files[q]]
WriteFile(files, p, c) == [q \in DOMAIN files \cup {p} |-> IF q = p THEN c ELSE files[q]]

\* delete row k of a table
DeleteRow(table, k) == [j \in DOMAIN table \ {k} |-> table[j]]
InsertRow(table, k, row) == [j \in DOMAIN table \cup {k} |-> IF j = k THEN row ELSE table[j]]

\* a sequence without the entries equal to x
RECURSIVE Without(_, _)
Without(s, x) ==
    IF s = <<>> THEN <<>>
    ELSE IF Head(s) = x THEN Without(Tail(s), x)
    ELSE <<Head(s)>> \o Without(Tail(s), x)

\* db: Session = Depends(database.get_db): the n-th session opened for a
\* request; no two requests are handed the same session object
get_db(n) == [session |-> n]
NoSession == get_db(0)

\* the frame of a submit handler between its commit and its return;
\* no submit handler is running when endpoint is "idle"
Idle ==
    [endpoint |-> "idle", image_ids |-> <<>>, template_id |-> NoId, generation_id |-> NoId,
     prompt |-> "", aspect_ratio |-> "", files |-> 0, local_image_paths |-> <<>>,
     db |-> NoSession, raised |-> FALSE]

Init ==
    /\ images = <<>>
    /\ templates = <<>>
    /\ gens = <<>>
    /\ fs = <<>>
    /\ upNames = 0
    /\ sessions = 0
    /\ tasks = <<>>
    /\ req = Idle

\* ------------------------------------------------------------ image rows
\* save_uploaded_file: write the file, insert the row, commit
SaveUploaded(st) ==
    LET name == UploadName(st.upNames + 1)
        id == NextId(DOMAIN st.images)
    IN  [images |-> InsertRow(st.images, id, [filepath |-> UploadRef(name)]),
         fs |-> WriteFile(st.fs, UploadFilePath(name), "upload"),
         upNames |-> st.upNames + 1,
         last |-> id]

\* POST /api/upload
upload_image(L) ==
    /\ upNames < L.uploads
    /\ LET r == SaveUploaded([images |-> images, fs |-> fs, upNames |-> upNames])
       IN  /\ images' = r.images
           /\ fs' = r.fs
           /\ upNames' = r.upNames
    /\ UNCHANGED <<templates, gens, sessions, tasks, req>>

\* db.delete(image): the rows of both association tables that name the image
\* go with it (both sides of the many-to-many relationships are mapped);
\* generations.source_image_id is a plain column and stays
\* mutant: the generations that use the image are deleted with it
CascadeGens(g, id) ==
    [k \in {j \in DOMAIN g : \A i \in DOMAIN g[j].source_images : g[j].source_images[i] # id} |-> g[k]]
DropImageFromGens(g, id) ==
    [k \in DOMAIN g |-> [g[k] EXCEPT !.source_images = Without(@, id)]]
DropImageFromTemplates(t, id) ==
    [k \in DOMAIN t |-> [t[k] EXCEPT !.reference_images = Without(@, id)]]

\* DELETE /api/images/{image_id}
delete_image(id) ==
    /\ id \in DOMAIN images
    /\ fs' = RemoveFile(fs, LocalPath(images[id].filepath))
    /\ images' = DeleteRow(images, id)
    /\ gens' = DropImageFromGens(gens, id)
    /\ templates' = DropImageFromTemplates(templates, id)
    /\ UNCHANGED <<upNames, sessions, tasks, req>>

\* ------------------------------------------------------- background task
\* f"{prompt}, aspect ratio {aspect_ratio}"
EnhancedPrompt(prompt, aspect_ratio) == [text |-> <<prompt, ", aspect ratio ", aspect_ratio>>]

\* mutant: the file is inserted right after the prompt
AttachFront(content, path) == <<Head(content), [file |-> path]>> \o Tail(content)
\* content.append(sample_file)
Attach(content, path) == Append(content, [file |-> path])

\* mutant: the first upload that raises ends the loop
RECURSIVE AttachUntilFailure(_, _, _)
AttachUntilFailure(content, paths, oks) ==
    IF paths = <<>> \/ ~Head(oks) THEN content
    ELSE AttachUntilFailure(Attach(content, Head(paths)), Tail(paths), Tail(oks))
\* the loop over image_paths: oks[i] tells whether genai.upload_file of the
\* i-th path returns; a raise is logged and the path skipped
RECURSIVE AttachAll(_, _, _)
AttachAll(content, paths, oks) ==
    IF paths = <<>> THEN content
    ELSE AttachAll(IF Head(oks) THEN Attach(content, Head(paths)) ELSE content,
                   Tail(paths), Tail(oks))

\* the outcomes of the uploads of the paths: a file that is not on disk
\* cannot be read, a file that is may still fail to upload
AttachOutcomes(paths, files) ==
    {oks \in [1..Len(paths) -> BOOLEAN] :
        \A i \in 1..Len(paths) : oks[i] => paths[i] \in DOMAIN files}

\* a task as add_task records it: the arguments of generate_image_task,
\* its local variables, its position and the number of model calls it made
NewTask(gid, prompt, paths, aspect_ratio, db, returned) ==
    [generation_id |-> gid, prompt |-> prompt, image_paths |-> paths,
     aspect_ratio |-> aspect_ratio, db |-> db, pc |-> "start", content |-> <<>>,
     attached |-> <<>>, response |-> NoResponse, output_path_for_db |-> NULL,
     calls |-> 0, raised |-> FALSE, found |-> FALSE, returned |-> returned]

\* the frame of a task that returned: its local variables are gone; what
\* stays is whether it raised and whether its last query found the row
Finished(task, pc, raised, found) ==
    [task EXCEPT !.pc = pc, !.content = <<>>, !.attached = <<>>,
                 !.response = NoResponse, !.output_path_for_db = NULL,
                 !.raised = raised, !.found = found]

\* "x in mime_type"
Contains(mime_type, x) == \E i \in DOMAIN mime_type : mime_type[i] = x

\* the extension of the file a binary part is written to
Ext(mime_type) ==
    LET e == IF Contains(mime_type, "jpeg") \/ Contains(mime_type, "jpg")
             THEN ".jpg" ELSE ".png"
    IN  IF Contains(mime_type, "webp") THEN ".webp" ELSE e

\* mutant: the text of the part replaces what was accumulated
ReplaceText(generated_text, text) == text
\* generated_text += part.text
AccumulateText(generated_text, text) == generated_text \o text

\* output_path_for_db after a binary part was written to the file `name`
ImageOutput(previous, name) == GeneratedRef(name)

\* the loop over response.parts. st carries generated_text, output_path_for_db,
\* the file system, the task and the number of files it wrote; the open() of
\* part number wfail raises
RECURSIVE ScanParts(_, _, _, _)
ScanParts(parts, i, wfail, st) ==
    IF i > Len(parts) THEN st
    ELSE LET part == parts[i]
             st1 == IF part.text # ""
                    THEN [st EXCEPT !.text = AccumulateText(@, part.text)]
                    ELSE st
         IN  IF part.inline_data = NoBlob THEN ScanParts(parts, i + 1, wfail, st1)
             ELSE IF wfail = i THEN [st1 EXCEPT !.raised = TRUE]
             ELSE LET name == GenName(st1.task, st1.names + 1, Ext(part.inline_data.mime_type))
                  IN  ScanParts(parts, i + 1, wfail,
                        [st1 EXCEPT !.names = @ + 1,
                                    !.fs = WriteFile(@, GeneratedFile(name), part.inline_data.data),
                                    !.output = ImageOutput(@, name)])

\* mutant: the text is saved whether or not an image was found
SaveTextAlways(st, wfail) ==
    IF st.raised \/ st.text = "" THEN st
    ELSE LET name == GenName(st.task, st.names + 1, ".txt")
         IN  [st EXCEPT !.names = @ + 1,
                        !.fs = WriteFile(@, GeneratedFile(name), st.text),
                        !.output = GeneratedRef(name)]
\* "If no image found but we have text, save text"
SaveText(st, wfail) ==
    IF st.raised \/ st.output # NULL \/ st.text = "" THEN st
    ELSE IF wfail = MaxParts + 1 THEN [st EXCEPT !.raised = TRUE]
    ELSE LET name == GenName(st.task, st.names + 1, ".txt")
         IN  [st EXCEPT !.names = @ + 1,
                        !.fs = WriteFile(@, GeneratedFile(name), st.text),
                        !.output = GeneratedRef(name)]

\* the fallback on response.text; a raise inside it is swallowed
TextFallback(st, text, wfail) ==
    IF st.raised \/ st.output # NULL THEN st
    ELSE IF text \in {RAISES, ""} \/ wfail = MaxParts + 1 THEN st
    ELSE LET name == GenName(st.task, st.names + 1, ".txt")
         IN  [st EXCEPT !.names = @ + 1,
                        !.fs = WriteFile(@, GeneratedFile(name), text),
                        !.output = GeneratedRef(name)]

\* mutant: nothing is written when no output was extracted
NoOutputUnset == NULL
\* "No valid output (text or image) extracted from Gemini response"
NoOutput == ERROR

\* lines 86-135: from the response to output_path_for_db
Normalize(response, wfail, files, t) ==
    LET st0 == [text |-> "", output |-> NULL, fs |-> files, task |-> t, names |-> 0, raised |-> FALSE]
        st1 == ScanParts(response.parts, 1, wfail, st0)
        st2 == SaveText(st1, wfail)
        st3 == TextFallback(st2, response.text, wfail)
    IN  IF st3.raised \/ st3.output # NULL THEN st3
        ELSE [st3 EXCEPT !.output = NoOutput]

\* mutant: no except branch, the exception leaves the task
NoHandler(g, gid) == [gens |-> g, pc |-> "crashed", found |-> FALSE]
\* the except branch: query the row again, write the sentinel, commit
ExceptHandler(g, gid) ==
    [gens |-> IF gid \in DOMAIN g THEN [g EXCEPT ![gid].output_image_path = ERROR] ELSE g,
     pc |-> "done", found |-> gid \in DOMAIN g]

\* mutant: a failed extraction is not written to the row
UpdateRecordUnlessError(g, gid, output) ==
    IF gid \in DOMAIN g /\ output # ERROR THEN [g EXCEPT ![gid].output_image_path = output] ELSE g
\* "Update DB": query the row, write output_path_for_db, commit
UpdateRecord(g, gid, output) ==
    IF gid \in DOMAIN g THEN [g EXCEPT ![gid].output_image_path = output] ELSE g

Raise(t) ==
    LET h == ExceptHandler(gens, tasks[t].generation_id)
    IN  /\ gens' = h.gens
        /\ tasks' = [tasks EXCEPT ![t] = Finished(@, h.pc, TRUE, h.found)]

\* genai.GenerativeModel raises: no request is built, no call made
RunBuildFails(t) ==
    /\ tasks[t].pc = "start"
    /\ Raise(t)
    /\ UNCHANGED <<images, templates, fs, upNames, sessions, req>>

\* the content is built and model.generate_content(content) returns
RunCall(L, t) ==
    /\ tasks[t].pc = "start"
    /\ \E oks \in AttachOutcomes(tasks[t].image_paths, fs), r \in L.responses :
          tasks' = [tasks EXCEPT ![t] =
              [tasks[t] EXCEPT
                  !.pc = "normalize",
                  !.attached = oks,
                  !.content = AttachAll(<<EnhancedPrompt(tasks[t].prompt, tasks[t].aspect_ratio)>>,
                                        tasks[t].image_paths, oks),
                  !.response = r,
                  !.calls = @ + 1]]
    /\ UNCHANGED <<images, templates, gens, fs, upNames, sessions, req>>

\* the content is built and model.generate_content(content) raises
RunCallFails(t) ==
    /\ tasks[t].pc = "start"
    /\ LET h == ExceptHandler(gens, tasks[t].generation_id)
       IN  /\ gens' = h.gens
           /\ tasks' = [tasks EXCEPT ![t] = [Finished(@, h.pc, TRUE, h.found) EXCEPT !.calls = @ + 1]]
    /\ UNCHANGED <<images, templates, fs, upNames, sessions, req>>

\* the response is normalized; a write that raises ends in the except branch
RunNormalize(t) ==
    /\ tasks[t].pc = "normalize"
    /\ \E wfail \in 0..(MaxParts + 1) :
          LET r == Normalize(tasks[t].response, wfail, fs, t)
          IN  /\ fs' = r.fs
              /\ IF r.raised
                 THEN Raise(t)
                 ELSE /\ tasks' = [tasks EXCEPT ![t] =
                            [@ EXCEPT !.pc = "update", !.output_path_for_db = r.output]]
                      /\ UNCHANGED gens
    /\ UNCHANGED <<images, templates, upNames, sessions, req>>

RunUpdate(t) ==
    /\ tasks[t].pc = "update"
    /\ gens' = UpdateRecord(gens, tasks[t].generation_id, tasks[t].output_path_for_db)
    /\ tasks' = [tasks EXCEPT ![t] = Finished(@, "done", FALSE, tasks[t].generation_id \in DOMAIN gens)]
    /\ UNCHANGED <<images, templates, fs, upNames, sessions, req>>

\* ---------------------------------------------------------------- submit
\* the ids a request may name: those of rows that can exist, present or not
IdValues(L) == 1..L.uploads

\* "for mid in image_ids: if mid in img_map": the rows found, in request order
FoundInOrder(image_ids, imgs) ==
    SelectSeq(image_ids, LAMBDA mid : mid \in DOMAIN imgs)

\* os.path.join("backend", img.filepath.lstrip("/")) of each image of a list
PathsOf(ids, imgs) == [i \in 1..Len(ids) |-> LocalPath(imgs[ids[i]].filepath)]

\* "Set Primary Source Image (for backward compat)"
PrimarySource(ids) == IF ids # <<>> THEN ids[1] ELSE NoId

\* models.Generation(...): output_image_path is not set
NewGeneration(prompt, aspect_ratio, ids) ==
    [prompt |-> prompt, aspect_ratio |-> aspect_ratio,
     source_image_id |-> PrimarySource(ids), source_images |-> ids,
     output_image_path |-> NULL]

\* mutant: template images are appended without the duplicate check
AddTemplateImageAlways(all, tmpl_img) == Append(all, tmpl_img)
\* "if tmpl_img not in all_source_images: # Avoid duplicates"
AddTemplateImage(all, tmpl_img) ==
    IF tmpl_img \in Range(all) THEN all ELSE Append(all, tmpl_img)

\* the loop over template.reference_images of the id-based endpoint
RECURSIVE AddTemplateImages(_, _)
AddTemplateImages(all, refs) ==
    IF refs = <<>> THEN all
    ELSE AddTemplateImages(AddTemplateImage(all, Head(refs)), Tail(refs))

\* db.add(db_gen); db.commit(): the row exists from here on, and the handler
\* goes on to db.refresh, add_task and return
Commit(endpoint, image_ids, template_id, prompt, aspect_ratio, files, ids, imgs) ==
    LET gid == NextId(DOMAIN gens)
    IN  /\ gens' = InsertRow(gens, gid, NewGeneration(prompt, aspect_ratio, ids))
        /\ req' = [endpoint |-> endpoint, image_ids |-> image_ids,
                   template_id |-> template_id, generation_id |-> gid,
                   prompt |-> prompt, aspect_ratio |-> aspect_ratio, files |-> files,
                   local_image_paths |-> PathsOf(ids, imgs),
                   db |-> get_db(sessions + 1), raised |-> FALSE]
        /\ sessions' = sessions + 1

\* mutant: the failure is logged and the handler goes on with what it saved
UploadFailedGoesOn(endpoint, template_id, prompt, aspect_ratio, files, ids, imgs) ==
    Commit(endpoint, <<>>, template_id, prompt, aspect_ratio, files, ids, imgs)
\* raise HTTPException(status_code=500, ...) out of the loop over the files:
\* the handler ends before it creates a Generation; what it saved stays
UploadFailed(endpoint, template_id, prompt, aspect_ratio, files, ids, imgs) ==
    /\ req' = [endpoint |-> endpoint, image_ids |-> <<>>,
               template_id |-> template_id, generation_id |-> NoId,
               prompt |-> prompt, aspect_ratio |-> aspect_ratio, files |-> files,
               local_image_paths |-> PathsOf(ids, imgs),
               db |-> get_db(sessions + 1), raised |-> TRUE]
    /\ sessions' = sessions + 1
    /\ UNCHANGED gens

\* a submit handler may start: none is running on the event loop
CanSubmit(L) == req = Idle /\ sessions < L.submits

\* POST /api/generate, up to the commit
generate_content(L, prompt, aspect_ratio, image_ids) ==
    /\ CanSubmit(L)
    /\ Commit("generate", image_ids, NoId, prompt, aspect_ratio, 0,
              FoundInOrder(image_ids, images), images)
    /\ UNCHANGED <<images, templates, fs, upNames, tasks>>

\* the loop over the uploaded files: save number failAt raises (0: none does)
RECURSIVE SaveAll(_, _, _, _)
SaveAll(st, n, k, failAt) ==
    IF k > n THEN st
    ELSE IF k = failAt THEN [st EXCEPT !.raised = TRUE]
    ELSE LET r == SaveUploaded(st)
         IN  SaveAll([st EXCEPT !.images = r.images, !.fs = r.fs, !.upNames = r.upNames,
                                !.saved = Append(@, r.last)], n, k + 1, failAt)

SaveFiles(n, failAt) ==
    SaveAll([images |-> images, fs |-> fs, upNames |-> upNames, saved |-> <<>>,
             raised |-> FALSE], n, 1, failAt)

\* POST /api/generate-direct, up to the commit (or to the HTTP 500 of a
\* failed save)
generate_content_direct(L, prompt, aspect_ratio, n, failAt) ==
    /\ CanSubmit(L)
    /\ upNames + n <= L.uploads
    /\ LET r == SaveFiles(n, failAt)
       IN  /\ images' = r.images
           /\ fs' = r.fs
           /\ upNames' = r.upNames
           /\ IF r.raised
              THEN UploadFailed("generate-direct", NoId, prompt, aspect_ratio, n,
                                r.saved, r.images)
              ELSE Commit("generate-direct", <<>>, NoId, prompt, aspect_ratio, n,
                          r.saved, r.images)
    /\ UNCHANGED <<templates, tasks>>

\* POST /api/generations/from-template, up to the commit
generate_from_template(L, template_id, image_ids) ==
    /\ CanSubmit(L)
    /\ template_id \in DOMAIN templates
    /\ LET template == templates[template_id]
           all == AddTemplateImages(FoundInOrder(image_ids, images),
                                    template.reference_images)
       IN  Commit("from-template", image_ids, template_id, template.prompt_template,
                  template.aspect_ratio, 0, all, images)
    /\ UNCHANGED <<images, templates, fs, upNames, tasks>>

\* POST /api/generations/from-template-direct, up to the commit
generate_from_template_direct(L, template_id, n, failAt) ==
    /\ CanSubmit(L)
    /\ template_id \in DOMAIN templates
    /\ upNames + n <= L.uploads
    /\ LET template == templates[template_id]
           r == SaveFiles(n, failAt)
       IN  /\ images' = r.images
           /\ fs' = r.fs
           /\ upNames' = r.upNames
           /\ IF r.raised
              THEN UploadFailed("from-template-direct", template_id,
                                template.prompt_template, template.aspect_ratio, n,
                                r.saved, r.images)
              ELSE Commit("from-template-direct", <<>>, template_id,
                          template.prompt_template, template.aspect_ratio, n,
                          r.saved \o template.reference_images, r.images)
    /\ UNCHANGED <<templates, tasks>>

\* the endpoints that hand template.prompt_template and template.aspect_ratio
\* to add_task
TemplateEndpoints == {"from-template", "from-template-direct"}

\* template.prompt_template and template.aspect_ratio in the arguments of
\* add_task: db.commit() expired the template object, so the attributes are
\* loaded again from the row the template id has now
ReadAgain(r, tmpls) ==
    IF r.endpoint \in TemplateEndpoints
    THEN [r EXCEPT !.prompt = tmpls[r.template_id].prompt_template,
                   !.aspect_ratio = tmpls[r.template_id].aspect_ratio]
    ELSE r

\* db.refresh(db_gen) raises when the row is gone, and so does the load of an
\* expired template whose row is gone
CanSchedule(r, g, tmpls) ==
    /\ ~r.raised
    /\ r.generation_id \in DOMAIN g
    /\ r.endpoint \in TemplateEndpoints => r.template_id \in DOMAIN tmpls

\* the rest of a submit handler: db.refresh(db_gen), add_task, return db_gen
Schedule(queue, r, row) ==
    Append(queue, NewTask(r.generation_id, r.prompt, r.local_image_paths,
                          r.aspect_ratio, r.db, row.output_image_path))

submit_return ==
    /\ req # Idle
    /\ IF CanSchedule(req, gens, templates)
       THEN tasks' = Schedule(tasks, ReadAgain(req, templates), gens[req.generation_id])
       ELSE UNCHANGED tasks
    /\ req' = Idle
    /\ UNCHANGED <<images, templates, gens, fs, upNames, sessions>>

\* -------------------------------------------------------------- templates
\* models.Template(...) with the rows the query for the ids returns
TemplateRows(prompt, aspect_ratio, ref_ids) ==
    {[prompt_template |-> prompt, aspect_ratio |-> aspect_ratio, reference_images |-> refs] :
        refs \in Orderings(ref_ids \cap DOMAIN images)}

\* POST /api/templates
create_template(L, prompt, aspect_ratio, ref_ids) ==
    /\ Cardinality(DOMAIN templates) < L.templates
    /\ \E row \in TemplateRows(prompt, aspect_ratio, ref_ids) :
          templates' = InsertRow(templates, NextId(DOMAIN templates), row)
    /\ UNCHANGED <<images, gens, fs, upNames, sessions, tasks, req>>

\* PUT /api/templates/{tmpl_id}
update_template(tmpl_id, prompt, aspect_ratio, ref_ids) ==
    /\ tmpl_id \in DOMAIN templates
    /\ \E row \in TemplateRows(prompt, aspect_ratio, ref_ids) :
          templates' = [templates EXCEPT ![tmpl_id] = row]
    /\ UNCHANGED <<images, gens, fs, upNames, sessions, tasks, req>>

\* DELETE /api/templates/{tmpl_id}
delete_template(tmpl_id) ==
    /\ tmpl_id \in DOMAIN templates
    /\ templates' = DeleteRow(templates, tmpl_id)
    /\ UNCHANGED <<images, gens, fs, upNames, sessions, tasks, req>>

\* ------------------------------------------------------------ generations
\* gen.output_image_path.endswith(".txt")
EndsWithTxt(path) == path[Len(path)].ext = ".txt"

\* mutant: no file is ever removed
HasImageFileNever(path) == FALSE
\* mutant: the ".txt" test is missing
HasOutputFile(path) == path # NULL /\ path # ERROR
\* the file delete_generation removes: the output, unless it is unset, the
\* sentinel or a text file
HasImageFile(path) == path # NULL /\ path # ERROR /\ ~EndsWithTxt(path)

\* DELETE /api/generations/{gen_id}
delete_generation(gen_id) ==
    /\ gen_id \in DOMAIN gens
    /\ fs' = IF HasImageFile(gens[gen_id].output_image_path)
             THEN RemoveFile(fs, LocalPath(gens[gen_id].output_image_path))
             ELSE fs
    /\ gens' = DeleteRow(gens, gen_id)
    /\ UNCHANGED <<images, templates, upNames, sessions, tasks, req>>

\* ------------------------------------------------------------------- next
Requests(L) ==
    \/ upload_image(L)
    \/ \E id \in DOMAIN images : delete_image(id)
    \/ \E pa \in RequestInputs, ids \in SeqsUpTo(IdValues(L), L.ids) :
          generate_content(L, pa[1], pa[2], ids)
    \/ \E pa \in RequestInputs, n \in 1..L.ids, failAt \in 0..L.ids :
          generate_content_direct(L, pa[1], pa[2], n, failAt)
    \/ \E t \in DOMAIN templates, ids \in SeqsUpTo(IdValues(L), L.ids) :
          generate_from_template(L, t, ids)
    \/ \E t \in DOMAIN templates, n \in 1..L.ids, failAt \in 0..L.ids :
          generate_from_template_direct(L, t, n, failAt)
    \/ submit_return
    \/ \E pa \in L.template_inputs, refs \in SUBSET IdValues(L) :
          create_template(L, pa[1], pa[2], refs)
    \/ \E t \in DOMAIN templates, pa \in L.template_inputs, refs \in SUBSET IdValues(L) :
          update_template(t, pa[1], pa[2], refs)
    \/ \E t \in DOMAIN templates : delete_template(t)
    \/ \E g \in DOMAIN gens : delete_generation(g)

\* the next step of background task t
RunTask(L, t) ==
    \/ RunBuildFails(t)
    \/ RunCall(L, t)
    \/ RunCallFails(t)
    \/ RunNormalize(t)
    \/ RunUpdate(t)

Run(L) == \E t \in DOMAIN tasks : RunTask(L, t)

Next == Requests(Bounds) \/ Run(Bounds)
NextCompose == Requests(ComposeBounds) \/ Run(ComposeBounds)
NextNormalize == Requests(NormalizeBounds) \/ Run(NormalizeBounds)

\* generations side by side
Spec == Init /\ [][Next]_vars
\* one generation composed from several images
SpecCompose == Init /\ [][NextCompose]_vars
\* one generation, every response
SpecNormalize == Init /\ [][NextNormalize]_vars

\* the thread pool runs every task that was added, and the call of the model
\* returns or raises: a task that can take a step eventually takes one
NextTemplate == Requests(TemplateBounds) \/ Run(TemplateBounds)
\* one generation from a template that is edited meanwhile
SpecTemplate == Init /\ [][NextTemplate]_vars

NextLive == Requests(LiveBounds) \/ Run(LiveBounds)
TasksRun == \A t \in 1..LiveSubmits : WF_vars(t \in DOMAIN tasks /\ RunTask(LiveBounds, t))
SpecFair == Init /\ [][NextLive]_vars /\ TasksRun

\* ================================================================ claims
\* a reference into the generated directory
IsGeneratedRef(path) ==
    /\ Len(path) = 3
    /\ path[1] = "static"
    /\ path[2] = "generated"

\* the step in which task t leaves pc `from` for pc `to`
Steps(t, from, to) == tasks[t].pc = from /\ tasks'[t].pc = to

\* the step in which the except branch of task t runs
Raises(t) == ~tasks[t].raised /\ tasks'[t].raised

\* the step in which a submit handler commits its Generation row
Commits(endpoint) == req = Idle /\ req'.endpoint = endpoint /\ ~req'.raised

\* the step in which a submit handler schedules its task
Schedules == req # Idle /\ Len(tasks') = Len(tasks) + 1

\* the entries of s at the positions where keep is TRUE, in order
RECURSIVE Kept(_, _)
Kept(s, keep) ==
    IF Len(s) = 0 THEN <<>>
    ELSE Kept(SubSeq(s, 1, Len(s) - 1), SubSeq(keep, 1, Len(keep) - 1))
         \o (IF keep[Len(s)] THEN <<s[Len(s)]>> ELSE <<>>)

\* ---- C1
\* C1: in every reachable state the output of every Generation row is unset,
\* the sentinel "error", or a reference into the generated directory whose
\* file a run wrote and that is on disk.
C1_OutputDomain ==
    \A g \in DOMAIN gens :
        LET out == gens[g].output_image_path
        IN  \/ out = NULL
            \/ out = ERROR
            \/ /\ IsGeneratedRef(out)
               /\ LocalPath(out) \in DOMAIN fs
               /\ \E t \in DOMAIN tasks : out[3].uuid[1] = t

C1_Witness ==
    \E g, h \in DOMAIN gens :
        /\ gens[g].output_image_path = ERROR
        /\ gens[h].output_image_path \notin {NULL, ERROR}
        /\ LocalPath(gens[h].output_image_path) \in DOMAIN fs

\* ---- C2
C2_Found(ids) == [i \in 1..Len(ids) |-> ids[i] \in DOMAIN images]

C2_Step ==
    /\ Commits("generate") =>
          /\ Len(req'.local_image_paths) = Len(Kept(req'.image_ids, C2_Found(req'.image_ids)))
          /\ \A i \in 1..Len(req'.local_image_paths) :
                req'.local_image_paths[i] =
                    <<"backend">> \o images[Kept(req'.image_ids, C2_Found(req'.image_ids))[i]].filepath
    /\ Schedules => tasks'[Len(tasks')].image_paths = req.local_image_paths
    /\ \A t \in DOMAIN tasks :
          Steps(t, "start", "normalize") =>
             LET sent == tasks'[t].content
                 files == Kept(tasks[t].image_paths, tasks'[t].attached)
             IN  /\ Len(sent) = 1 + Len(files)
                 /\ sent[1] = [text |-> <<tasks[t].prompt, ", aspect ratio ", tasks[t].aspect_ratio>>]
                 /\ \A i \in 1..Len(files) : sent[i + 1] = [file |-> files[i]]

\* C2: the paths POST /api/generate hands on are those of the rows found for
\* image_ids, in the order of image_ids; the task is scheduled with these
\* paths; and the content sent to the model is the text part followed by the
\* files of exactly the paths whose upload succeeded, in that order.
C2_OrderPreserved == [][C2_Step]_vars

C2_Witness ==
    \E t \in DOMAIN tasks :
        /\ tasks[t].pc = "normalize"
        /\ tasks[t].prompt = "p3"
        /\ tasks[t].image_paths =
              <<UploadFilePath(UploadName(2)), UploadFilePath(UploadName(1))>>
        /\ tasks[t].attached = <<TRUE, TRUE>>
        /\ Len(tasks[t].content) = 3

\* the mapping as listed: jpeg or jpg, then webp, else png
ListedExt(mime_type) ==
    IF Contains(mime_type, "jpeg") \/ Contains(mime_type, "jpg") THEN ".jpg"
    ELSE IF Contains(mime_type, "webp") THEN ".webp"
    ELSE ".png"

\* ---- C3
\* the binary parts of a response, in order
BinaryParts(parts) == SelectSeq(parts, LAMBDA part : part.inline_data # NoBlob)

\* C3: when a response holds binary parts, the output of the task references
\* a file holding the bytes of the first of them, with the extension of its
\* mime type, and no file is kept for the later ones.
C3_FirstBinaryKept ==
    \A t \in DOMAIN tasks :
        (tasks[t].pc = "update" /\ BinaryParts(tasks[t].response.parts) # <<>>) =>
            LET first == BinaryParts(tasks[t].response.parts)[1].inline_data
                out == tasks[t].output_path_for_db
            IN  /\ IsGeneratedRef(out)
                /\ out[3].ext = ListedExt(first.mime_type)
                /\ fs[LocalPath(out)] = first.data
                /\ \A q \in DOMAIN fs : (q[3] = "generated" /\ q[4].uuid[1] = t) => q = LocalPath(out)

\* ---- C4
C4_User == Kept(req'.image_ids, C2_Found(req'.image_ids))

C4_Step ==
    /\ Commits("from-template") =>
          LET refs == templates[req'.template_id].reference_images
              composed == C4_User \o SelectSeq(refs, LAMBDA x : \A i \in DOMAIN C4_User : C4_User[i] # x)
          IN  /\ gens'[req'.generation_id].source_images = composed
              /\ req'.local_image_paths =
                    [i \in 1..Len(composed) |-> <<"backend">> \o images[composed[i]].filepath]
    /\ Schedules => tasks'[Len(tasks')].image_paths = req.local_image_paths

\* C4: the image list POST /api/generations/from-template composes is the
\* rows found for image_ids in request order, then the template's reference
\* images, in their order, that are not among them; it is stored as
\* source_images, its paths are handed on, and the task is scheduled with them.
C4_TemplateOrder == [][C4_Step]_vars

C4_Witness ==
    /\ req.endpoint = "from-template"
    /\ req.image_ids = <<1, 2>>
    /\ req.template_id \in DOMAIN templates
    /\ templates[req.template_id].reference_images \in {<<1, 3>>, <<3, 1>>}
    /\ req.generation_id \in DOMAIN gens
    /\ gens[req.generation_id].source_images = <<1, 2, 3>>
    /\ Len(req.local_image_paths) = 3

\* ---- C5
C5_Step ==
    \A t \in DOMAIN tasks :
        /\ Raises(t) =>
              /\ tasks'[t].pc = "done"
              /\ tasks'[t].calls <= 1
              /\ tasks[t].generation_id \in DOMAIN gens =>
                    gens'[tasks[t].generation_id].output_image_path = ERROR
        /\ tasks[t].pc = "done" => tasks'[t] = tasks[t]
        /\ tasks[t].calls <= 1

\* C5: the step in which a task raises writes the sentinel to the row of its
\* generation_id if the row exists, ends the task without the exception
\* leaving it, and the task has called the model at most once; a task that
\* ended never moves again.
C5_FailureAbsorbed == [][C5_Step]_vars

C5_Witness ==
    \E t \in DOMAIN tasks :
        /\ tasks[t].raised
        /\ tasks[t].pc = "done"
        /\ tasks[t].calls = 1
        /\ tasks[t].generation_id \in DOMAIN gens
        /\ gens[tasks[t].generation_id].output_image_path = ERROR

\* ---- C6
C6_Step ==
    \A g \in DOMAIN gens :
        (gens[g].output_image_path # NULL /\ g \in DOMAIN gens') =>
            gens'[g].output_image_path = gens[g].output_image_path

\* C6: once the output of a Generation row is set it never changes while the
\* row exists.
C6_MutatedOnce == [][C6_Step]_vars

\* ---- C7
C7_Step ==
    /\ (req = Idle /\ req' # Idle /\ ~req'.raised) =>
          /\ req'.generation_id \in DOMAIN gens' \ DOMAIN gens
          /\ gens'[req'.generation_id].output_image_path = NULL
          /\ tasks' = tasks
    /\ Schedules =>
          /\ req.generation_id \in DOMAIN gens
          /\ tasks'[Len(tasks')].generation_id = req.generation_id
          /\ tasks'[Len(tasks')].pc = "start"
          /\ tasks'[Len(tasks')].returned = NULL

\* C7: a submit handler commits its row with unset output and schedules
\* nothing in that step; it schedules its task later, while the row exists;
\* and the record it returns has unset output.
C7_PendingThenScheduled == [][C7_Step]_vars

\* ---- C8
\* the text of the parts, concatenated in order
RECURSIVE ConcatTexts(_)
ConcatTexts(parts) ==
    IF parts = <<>> THEN "" ELSE Head(parts).text \o ConcatTexts(Tail(parts))

TextOnly(response) ==
    /\ BinaryParts(response.parts) = <<>>
    /\ \E i \in DOMAIN response.parts : response.parts[i].text # ""

C8_Step ==
    \A t \in DOMAIN tasks :
        /\ (Steps(t, "normalize", "update") /\ TextOnly(tasks[t].response)) =>
              LET out == tasks'[t].output_path_for_db
              IN  /\ IsGeneratedRef(out)
                  /\ out[3].ext = ".txt"
                  /\ LocalPath(out) \in DOMAIN fs' \ DOMAIN fs
                  /\ fs'[LocalPath(out)] = ConcatTexts(tasks[t].response.parts)
        /\ (Steps(t, "update", "done") /\ tasks[t].generation_id \in DOMAIN gens) =>
              gens'[tasks[t].generation_id].output_image_path = tasks[t].output_path_for_db

\* C8: normalizing a response without binary parts and with some non-empty
\* text part writes one .txt file holding the texts of all parts in order and
\* makes it the output of the task; the update then writes that reference to
\* the row of the Generation.
C8_TextArtifact == [][C8_Step]_vars

C8_Witness ==
    \E t \in DOMAIN tasks :
        /\ tasks[t].pc = "update"
        /\ tasks[t].response.parts = <<TextPart("a"), TextPart("b")>>
        /\ tasks[t].output_path_for_db[3].ext = ".txt"
        /\ fs[LocalPath(tasks[t].output_path_for_db)] = "ab"

\* ---- C9
EmptyResponse(response) == response.parts = <<>> /\ response.text = ""

C9_Step ==
    \A t \in DOMAIN tasks :
        /\ (tasks[t].pc = "normalize" /\ tasks'[t].pc # "normalize"
                /\ EmptyResponse(tasks[t].response)) =>
              /\ tasks'[t].pc = "update"
              /\ tasks'[t].output_path_for_db = ERROR
              /\ fs' = fs
        /\ (Steps(t, "update", "done") /\ tasks[t].output_path_for_db = ERROR
                /\ tasks[t].generation_id \in DOMAIN gens) =>
              gens'[tasks[t].generation_id].output_image_path = ERROR

\* C9: normalizing a response with no parts and an empty aggregate text
\* writes no file and leaves the sentinel as the output of the task; the
\* update then writes the sentinel to the row of the Generation.
C9_EmptyIsFailure == [][C9_Step]_vars

C9_Witness ==
    \E t \in DOMAIN tasks :
        /\ tasks[t].pc = "update"
        /\ EmptyResponse(tasks[t].response)
        /\ tasks[t].output_path_for_db = ERROR
        /\ tasks[t].generation_id \in DOMAIN gens

\* ---- C10
\* C10: every Generation row with a non-empty source_images list has the id
\* of the first image of the list in source_image_id.
C10_PrimaryIsFirst ==
    \A g \in DOMAIN gens :
        gens[g].source_images # <<>> => gens[g].source_image_id = gens[g].source_images[1]

\* ---- C11
\* the step in which the row of Generation g is deleted
Deleted(g) == g \in DOMAIN gens /\ g \notin DOMAIN gens'

\* a reference to a text artifact
IsTextRef(path) == path[Len(path)].ext = ".txt"

\* the files of the uploads directory stay as they are
UploadsKept ==
    \A p \in DOMAIN fs : p[3] = "uploads" => (p \in DOMAIN fs' /\ fs'[p] = fs[p])

C11_AnyStep ==
    \A g \in DOMAIN gens :
        Deleted(g) =>
            LET out == gens[g].output_image_path
            IN  /\ (out # NULL /\ out # ERROR) => <<"backend">> \o out \notin DOMAIN fs'
                /\ images' = images
                /\ UploadsKept

\* C11 as stated: deleting a Generation whose output is set and is not the
\* sentinel removes the file of the output, and removes no image row and no
\* uploaded file.
C11_AnyArtifactRemoved == [][C11_AnyStep]_vars

C11_Step ==
    \A g \in DOMAIN gens :
        Deleted(g) =>
            LET out == gens[g].output_image_path
            IN  /\ (out # NULL /\ out # ERROR /\ ~IsTextRef(out)) =>
                      <<"backend">> \o out \notin DOMAIN fs'
                /\ images' = images
                /\ UploadsKept

\* C11: deleting a Generation whose output is set, is not the sentinel and
\* is not a ".txt" reference removes the file of the output; deleting a
\* Generation removes no image row and no uploaded file.
C11_ImageArtifactRemoved == [][C11_Step]_vars

C11_Witness ==
    /\ Len(tasks) = 1
    /\ req = Idle
    /\ tasks[1].pc = "done" /\ tasks[1].found /\ ~tasks[1].raised
    /\ tasks[1].generation_id \notin DOMAIN gens
    /\ GeneratedFile(GenName(1, 1, ".png")) \in DOMAIN fs
    /\ GeneratedFile(GenName(1, 2, ".jpg")) \notin DOMAIN fs
    /\ tasks[1].image_paths # <<>>
    /\ \A i \in DOMAIN tasks[1].image_paths : tasks[1].image_paths[i] \in DOMAIN fs
    /\ images # <<>>

\* ---- C12
\* the step in which the row of image i is deleted
ImageDeleted(i) == i \in DOMAIN images /\ i \notin DOMAIN images'

C12_SameStep ==
    \A i \in DOMAIN images :
        ImageDeleted(i) => (gens' = gens /\ templates' = templates)

\* C12 as stated: the rows of the generations and of the templates, with
\* their image lists, are the same before and after an image is deleted.
C12_RecordsSame == [][C12_SameStep]_vars

C12_Step ==
    \A i \in DOMAIN images :
        ImageDeleted(i) =>
            /\ DOMAIN images' = DOMAIN images \ {i}
            /\ \A j \in DOMAIN images' : images'[j] = images[j]
            /\ DOMAIN fs' = DOMAIN fs \ {<<"backend">> \o images[i].filepath}
            /\ \A p \in DOMAIN fs' : fs'[p] = fs[p]
            /\ DOMAIN gens' = DOMAIN gens
            /\ \A g \in DOMAIN gens :
                  gens'[g] = [gens[g] EXCEPT
                                 !.source_images = SelectSeq(@, LAMBDA x : x # i)]
            /\ DOMAIN templates' = DOMAIN templates
            /\ \A k \in DOMAIN templates :
                  templates'[k] = [templates[k] EXCEPT
                                      !.reference_images = SelectSeq(@, LAMBDA x : x # i)]

\* C12: deleting an image removes its row and its file and nothing else of
\* the images and files; the same generations and templates exist before and
\* after, each with the same columns, and their image lists are the lists of
\* before without the deleted image.
C12_RecordsKept == [][C12_Step]_vars

C12_Witness ==
    /\ 1 \notin DOMAIN images
    /\ \E g \in DOMAIN gens :
          /\ gens[g].source_image_id = 1
          /\ gens[g].source_images = <<2>>
    /\ \E k \in DOMAIN templates : templates[k].reference_images = <<2>>

\* ---- C13
C13_Step ==
    (req = Idle /\ req' # Idle) =>
        \A i \in DOMAIN req'.image_ids : req'.image_ids[i] \in DOMAIN images

\* C13: a submit handler commits a Generation only when every image its
\* request names exists; a request naming an absent image is rejected.
C13_AbsentRejected == [][C13_Step]_vars

\* ---- C14
\* C14: the session a task was scheduled with is none of the sessions opened
\* for request handlers, and no two tasks have the same session.
C14_OwnSession ==
    /\ \A t \in DOMAIN tasks : \A n \in 1..sessions : tasks[t].db # [session |-> n]
    /\ \A t, u \in DOMAIN tasks : t # u => tasks[t].db # tasks[u].db

\* ---- C15
\* the run of the Generation row g: the task scheduled last for its id
OwnRun(g) == Max({t \in DOMAIN tasks : tasks[t].generation_id = g})

C16_Step ==
    \A t \in DOMAIN tasks :
        (Steps(t, "normalize", "update") /\ BinaryParts(tasks[t].response.parts) # <<>>) =>
            LET out == tasks'[t].output_path_for_db
            IN  /\ IsGeneratedRef(out)
                /\ out[3].ext # ".txt"
                /\ <<"backend">> \o out \in DOMAIN fs'
                /\ \A p \in DOMAIN fs' \ DOMAIN fs : p[4].ext # ".txt"

\* C16: normalizing a response that holds a binary part leaves a reference
\* to an image file as the output of the task, wherever the text parts are,
\* and writes no ".txt" file.
C16_ImageWins == [][C16_Step]_vars

C16_Witness ==
    \E t \in DOMAIN tasks :
        /\ tasks[t].pc = "update"
        /\ tasks[t].response.parts =
              <<TextPart("a"), BinaryPart(MimePng, "bytes1"), TextPart("b")>>
        /\ tasks[t].output_path_for_db[3].ext = ".png"

\* ---- C17
C17_Step ==
    /\ \A g \in DOMAIN gens :
          Deleted(g) =>
              LET out == gens[g].output_image_path
                  isImage == out # NULL /\ out # ERROR /\ ~IsTextRef(out)
              IN  /\ isImage =>
                        /\ <<"backend">> \o out \in DOMAIN fs
                        /\ DOMAIN fs' = DOMAIN fs \ {<<"backend">> \o out}
                  /\ ~isImage => DOMAIN fs' = DOMAIN fs
                  /\ DOMAIN gens' = DOMAIN gens \ {g}
    /\ (\E p \in DOMAIN fs \ DOMAIN fs' : p[3] = "generated") =>
          \E g \in DOMAIN gens : Deleted(g)

\* C17: deleting a Generation whose output references an image file removes
\* exactly that file; deleting one whose output is unset, the sentinel or a
\* ".txt" reference removes no file; the row is removed in every case, and
\* generated files are removed by nothing else.
C17_DeleteRule == [][C17_Step]_vars

C17_Witness ==
    /\ Len(tasks) = 1
    /\ req = Idle
    /\ tasks[1].pc = "done" /\ tasks[1].found /\ ~tasks[1].raised
    /\ tasks[1].generation_id \notin DOMAIN gens
    /\ GeneratedFile(GenName(1, 1, ".txt")) \in DOMAIN fs

\* ---- C18
C18_Step ==
    \A t \in DOMAIN tasks :
        /\ Steps(t, "start", "normalize") =>
              LET files == Kept(tasks[t].image_paths, tasks'[t].attached)
              IN  /\ tasks'[t].calls = 1
                  /\ ~tasks'[t].raised
                  /\ Len(tasks'[t].content) = 1 + Len(files)
                  /\ \A i \in 1..Len(files) : tasks'[t].content[i + 1] = [file |-> files[i]]
        /\ (Steps(t, "normalize", "update")
                /\ (\E i \in DOMAIN tasks[t].attached : ~tasks[t].attached[i])
                /\ (BinaryParts(tasks[t].response.parts) # <<>> \/ TextOnly(tasks[t].response))) =>
              tasks'[t].output_path_for_db # ERROR

\* C18: when uploads of some images fail, the model is still called, once,
\* with the files of the other images in their order, and the output of the
\* task is the sentinel only if the response yields no output.
C18_AttachFailureSkipped == [][C18_Step]_vars

C18_Witness ==
    \E t \in DOMAIN tasks :
        /\ tasks[t].pc = "update"
        /\ tasks[t].attached = <<FALSE, TRUE>>
        /\ tasks[t].image_paths[2] \in DOMAIN fs
        /\ tasks[t].content[2] = [file |-> tasks[t].image_paths[2]]
        /\ tasks[t].output_path_for_db # ERROR

\* ---- C19
C19_Step ==
    \A t \in DOMAIN tasks :
        Steps(t, "normalize", "update") =>
            LET binary == BinaryParts(tasks[t].response.parts)
            IN  \A k \in DOMAIN binary :
                    <<"backend", "static", "generated",
                      [uuid |-> <<t, k>>, ext |-> ListedExt(binary[k].inline_data.mime_type)]>>
                        \in DOMAIN fs'

\* C19: the file written for a binary part has the extension the listed
\* mapping gives for its mime type, whatever the mime type.
C19_ListedMapping == [][C19_Step]_vars

\* ---- C20
C20_Step ==
    \A t \in DOMAIN tasks :
        (tasks[t].pc # "done" /\ tasks'[t].pc = "done"
            /\ tasks[t].generation_id \in DOMAIN gens') =>
                gens'[tasks[t].generation_id].output_image_path # NULL

\* an output that is set is never unset while the row exists
C20_Settled ==
    \A g \in DOMAIN gens :
        (gens[g].output_image_path # NULL /\ g \in DOMAIN gens') =>
            gens'[g].output_image_path # NULL

\* C20: every scheduled task eventually ends; the step that ends it leaves
\* the row of its Generation, if the row exists, with an output that is set;
\* and an output that is set is never unset again.
C20_Terminates ==
    /\ \A t \in 1..LiveSubmits :
          (t \in DOMAIN tasks) ~> (t \in DOMAIN tasks /\ tasks[t].pc = "done")
    /\ [][C20_Step /\ C20_Settled]_vars

C20_Witness ==
    \E t \in DOMAIN tasks :
        /\ tasks[t].pc = "done" /\ tasks[t].found
        /\ tasks[t].calls = 1
        /\ tasks[t].generation_id \in DOMAIN gens
        /\ gens[tasks[t].generation_id].output_image_path # NULL
        /\ <<"backend">> \o gens[tasks[t].generation_id].output_image_path \in DOMAIN fs

\* ---- C21
\* the Generation task t was scheduled for has been deleted: its row is gone,
\* or its id was given to a row that a later handler made
OwnDeleted(t) ==
    \/ tasks[t].generation_id \notin DOMAIN gens
    \/ req.generation_id = tasks[t].generation_id
    \/ \E u \in DOMAIN tasks : u > t /\ tasks[u].generation_id = tasks[t].generation_id

C21_Step ==
    \A t \in DOMAIN tasks :
        (tasks'[t] # tasks[t] /\ OwnDeleted(t)) =>
            /\ gens' = gens
            /\ tasks'[t].pc \in {"normalize", "update", "done"}

\* C21: a step of a task whose Generation has been deleted leaves the
\* generations table as it is and does not end in an exception.
C21_DeletedUntouched == [][C21_Step]_vars

\* ---- C22
\* C22: when every task has ended, every file of the generated directory that
\* is not a ".txt" file is the output of a Generation row.
C22_NoOrphans ==
    (\A t \in DOMAIN tasks : tasks[t].pc = "done") =>
        \A p \in DOMAIN fs :
            (p[3] = "generated" /\ p[4].ext # ".txt") =>
                \E g \in DOMAIN gens : <<"backend">> \o gens[g].output_image_path = p

\* ---- C23
C23_Step ==
    /\ \A e \in {"from-template", "from-template-direct"} :
          Commits(e) =>
              /\ gens'[req'.generation_id].prompt = templates[req'.template_id].prompt_template
              /\ gens'[req'.generation_id].aspect_ratio = templates[req'.template_id].aspect_ratio
    /\ (Schedules /\ req.endpoint \in {"from-template", "from-template-direct"}) =>
          /\ tasks'[Len(tasks')].prompt = gens[req.generation_id].prompt
          /\ tasks'[Len(tasks')].aspect_ratio = gens[req.generation_id].aspect_ratio
    /\ (\E k \in DOMAIN templates :
            \/ k \notin DOMAIN templates'
            \/ templates'[k].prompt_template # templates[k].prompt_template
            \/ templates'[k].aspect_ratio # templates[k].aspect_ratio) =>
          (gens' = gens /\ tasks' = tasks)

\* C23: a template-based submit stores the prompt and aspect ratio of the
\* template in its Generation, its task is scheduled with the same two
\* values, and a step that edits the prompt or aspect ratio of a template, or
\* deletes it, changes no Generation row and no task.
C23_TemplateSnapshot == [][C23_Step]_vars

\* ---- C24
C24_Step ==
    /\ (req = Idle /\ req' # Idle /\ upNames' - upNames < req'.files) =>
          /\ req'.raised
          /\ req'.generation_id = 0
          /\ gens' = gens
          /\ tasks' = tasks
          /\ \A i \in DOMAIN images : i \in DOMAIN images' /\ images'[i] = images[i]
          /\ Cardinality(DOMAIN images' \ DOMAIN images) = upNames' - upNames
          /\ \A i \in DOMAIN images' \ DOMAIN images :
                <<"backend">> \o images'[i].filepath \in DOMAIN fs' \ DOMAIN fs
    /\ (req.raised /\ req' = Idle) =>
          /\ gens' = gens
          /\ tasks' = tasks
          /\ images' = images
          /\ fs' = fs

\* C24: a direct-upload handler that saved fewer files than its request
\* carried ends in an exception, creates no Generation row and schedules no
\* task, then or when it answers; each file it saved is a new row of the
\* images table with its file on disk, and no other image row changes.
C24_UploadFailure == [][C24_Step]_vars

C24_Witness ==
    /\ req.raised
    /\ req.files = 2
    /\ req.endpoint \in {"generate-direct", "from-template-direct"}
    /\ Len(req.local_image_paths) = 1
    /\ req.local_image_paths[1] \in DOMAIN fs
    /\ \E i \in DOMAIN images : <<"backend">> \o images[i].filepath = req.local_image_paths[1]
    /\ gens = <<>>
    /\ tasks = <<>>
====
